---- MODULE Spec2Model ----
(***************************************************************************)
(* dismatch: pattern matching over discriminated unions.                   *)
(*                                                                         *)
(* The model follows unions.ts in its dispatch/guard form: isUnion, is,    *)
(* dispatch, guard, the four value-first operations match,                 *)
(* matchWithDefault, map, mapAll (each returns a closure awaiting the      *)
(* handler table) and createPipeHandlers (handlers first, value last).     *)
(*                                                                         *)
(* JavaScript values are records of one shape [t, s, n]; objects live in   *)
(* a heap and are denoted by references, so that "the same reference" and  *)
(* "an equal copy" are different values of the model.                      *)
(***************************************************************************)
EXTENDS Integers, Sequences, FiniteSets, TLC

VARIABLES
  heap,     \* the caller's objects, by reference
  bound,    \* const f = op(input, d): the closure the caller holds
  factory,  \* const ops = createPipeHandlers(d)
  pipe,     \* const p = ops.op(handlers)
  last,     \* the last call the caller made and how it ended
  prev,     \* how the application of p before the last one ended
  factory2, \* const ops2 = createPipeHandlers(d2): a second factory
  pipe2,    \* const p2 = ops2.op(handlers)
  pred      \* the call of a predicate the caller made and how it ended

vars == <<heap, bound, factory, pipe, last, prev, factory2, pipe2, pred>>

\* The second factory and the function bound from it.
second == <<factory2, pipe2>>

\* What the operations and the factories leave alone.
others == <<factory2, pipe2, pred>>

----------------------------------------------------------------------------
(* Bounds                                                                  *)

\* Largest number of own entries of a handler table the caller passes.
MaxEntries == 2

\* Longest array the caller filters with is.
MaxLen == 3

----------------------------------------------------------------------------
(* JavaScript values                                                       *)

Val(t, s, n) == [t |-> t, s |-> s, n |-> n]

Undef == Val("undefined", "", 0)
Null == Val("null", "", 0)
Str(s) == Val("string", s, 0)
Num(n) == Val("number", "", n)
Bool(b) == Val("boolean", "", IF b THEN 1 ELSE 0)
Ref(i) == Val("object", "", i)
\* An Error object carrying a message (thrown values only).
Err(msg) == Val("error", msg, 0)
\* A function value handed back to the caller (the curried closure).
FnVal(name) == Val("function", name, 0)
\* The absence of an argument in a call f().
NoArg == Val("noarg", "", 0)

\* Property names read as discriminants.
Discriminants == {"type", "kind"}

\* The discriminant argument left out of a call.
Omitted == "<omitted>"

\* What a caller passes as (or instead of) the discriminant argument.
KeyArgs == Discriminants \cup {Omitted}

\* discriminant = 'type': the default value of the parameter.
DefaultKey_kind(discriminant) ==
  IF discriminant = Omitted THEN "kind" ELSE discriminant

DefaultKey(discriminant) ==
  IF discriminant = Omitted THEN "type" ELSE discriminant

\* Property names objects of the model carry.
FieldNames == Discriminants \cup {"radius"}

Obj(type, kind, radius) ==
  [isArray |-> FALSE,
   f |-> [k \in FieldNames |->
            CASE k = "type" -> type [] k = "kind" -> kind [] OTHER -> radius]]

Arr(type) ==
  [isArray |-> TRUE,
   f |-> [k \in FieldNames |-> IF k = "type" THEN type ELSE Undef]]

\* The objects the caller owns.  1 and 2 are equal in every field and are
\* different references.
InitHeap ==
  <<Obj(Str("circle"), Undef, Num(5)),
    Obj(Str("circle"), Undef, Num(5)),
    Obj(Str("square"), Str("dog"), Undef),
    Obj(Undef, Str("dog"), Undef),
    Obj(Num(5), Undef, Undef),
    Obj(Str(""), Undef, Undef),
    Obj(Str("Default"), Undef, Undef),
    Obj(Str("constructor"), Undef, Undef),
    Arr(Str("circle")),
    Obj(Undef, Undef, Undef),
    Obj(Str("toString"), Undef, Undef),
    Obj(Str("default"), Undef, Undef)>>

Refs == {Ref(i) : i \in DOMAIN InitHeap}

\* Every value a caller passes as input.
Inputs == {Undef, Null, Str("circle"), Num(5), Bool(TRUE)} \cup Refs

\* typeof x
TypeOf(x) ==
  CASE x.t = "null" -> "object"
    [] x.t = "error" -> "object"
    [] OTHER -> x.t

\* x[key] for a non-nullish x: a property of a heap object, undefined on a
\* primitive (no primitive wrapper has a property named by FieldNames).
Get(h, x, key) ==
  IF x.t = "object" /\ key \in DOMAIN h[x.n].f THEN h[x.n].f[key] ELSE Undef

\* The property key a value is converted to when it indexes an object.
ToKey(x) ==
  CASE x.t = "string" -> x.s
    [] x.t = "undefined" -> "undefined"
    [] x.t = "null" -> "null"
    [] x.t = "number" -> "<number>"
    [] x.t = "boolean" -> IF x.n = 1 THEN "true" ELSE "false"
    [] OTHER -> "[object Object]"

----------------------------------------------------------------------------
(* Handler tables and the functions found in them                          *)

\* What a caller-supplied function does with its argument:
\*   "id"  (x) => x          "num" () => 42
\*   "obj" () => other       (an object of another variant)
Behaviours == {"id", "num", "obj"}

\* Keys a caller may put in a table.
TableKeys == {"circle", "dog", "Default", "constructor"}

\* Property names every object literal inherits from Object.prototype.
InheritedKeys == {"constructor", "toString"}

\* A table maps each key to a behaviour or to "absent".
AllTables == [TableKeys -> Behaviours \cup {"absent"}]

OwnKeys(H) == {k \in DOMAIN H : H[k] # "absent"}

Tables == {H \in AllTables : Cardinality(OwnKeys(H)) <= MaxEntries}

EmptyTable == [k \in TableKeys |-> "absent"]

\*   "throw" () => { throw new Error(...) }
\* A function value as dispatch sees it.  src tells where it came from:
\* "own" (an entry the caller put in the table), "inherited" (found on
\* Object.prototype), "synthetic" (a closure the library built), "none"
\* (undefined).  cap is the value a synthetic closure captured.
Fn(src, key, beh, cap) == [src |-> src, key |-> key, beh |-> beh, cap |-> cap]

NoFn == Fn("none", "", "", Undef)

\* The result of calling fn with arg.
Call(fn, arg) ==
  CASE fn.beh = "id" -> IF arg = NoArg THEN Undef ELSE arg
    [] fn.beh = "num" -> Num(42)
    [] fn.beh = "obj" -> Ref(3)
    [] fn.beh = "Object" -> arg
    [] fn.beh = "toString" -> Str("[object Undefined]")
    [] fn.beh = "input" -> fn.cap
    [] OTHER -> Undef

\* What Object.prototype holds under an inherited key: constructor is the
\* function Object (Object(x) returns x for an object x); toString, called
\* as a plain function, has no receiver and returns "[object Undefined]".
Inherited(key) ==
  Fn("inherited", key, IF key = "constructor" THEN "Object" ELSE key, Undef)

\* handlers[key]: an own entry, else what the prototype chain provides,
\* else undefined.
Lookup(H, key) ==
  IF key \in DOMAIN H /\ H[key] # "absent" THEN Fn("own", key, H[key], Undef)
  ELSE IF key \in InheritedKeys THEN Inherited(key)
  ELSE NoFn

----------------------------------------------------------------------------
(* Outcomes                                                                *)

\* A curried closure: the operation that built it and what it captured.
Closure(op, input, d) == [op |-> op, input |-> input, d |-> d]

NoClosure == Closure("none", Undef, "")

\* One invocation of a function by the library.
Invocation(fn, arg) == [fn |-> fn, arg |-> arg]

\* How a call ends: a returned value or a thrown one, the invocations of
\* functions it made on the way, and the closure it returned (if any).
Return(v, calls) ==
  [st |-> "return", val |-> v, calls |-> calls, closure |-> NoClosure]

Throw(e, calls) ==
  [st |-> "throw", val |-> e, calls |-> calls, closure |-> NoClosure]

ReturnClosure(c) ==
  [st |-> "return", val |-> FnVal(c.op), calls |-> <<>>, closure |-> c]

InvalidInput == Err("Data is not of type discriminated union!")

\* The error a throwing handler of the caller throws.
HandlerError == Err("thrown by a handler")

\* return fn(arg): the call is made, and what fn throws is thrown on.
Invoke(fn, arg) ==
  IF fn.beh = "throw"
    THEN Throw(HandlerError, <<Invocation(fn, arg)>>)
    ELSE Return(Call(fn, arg), <<Invocation(fn, arg)>>)

IncompleteMatcher == Err("Matcher incomplete!")

\* The kind of ending of a call.
Ending(out) ==
  CASE out.st = "return" -> "return"
    [] out.val = InvalidInput -> "invalid"
    [] out.val = IncompleteMatcher -> "incomplete"
    [] OTHER -> "other"

----------------------------------------------------------------------------
(* unions.ts                                                               *)

\* helpers.ts: clearStackTrace(err, caller) trims err.stack and returns
\* the same error object.
clearStackTrace(err) == err

isUnion(h, input, discriminant) ==
  /\ TypeOf(input) = "object"
  /\ input # Null
  /\ TypeOf(Get(h, input, DefaultKey(discriminant))) = "string"

\* Reading a property of null or undefined throws this.
TypeError == Err("TypeError: Cannot read properties of null or undefined")

\* union[discriminant] === type
is(h, union, type, discriminant) ==
  IF union \in {Null, Undef}
    THEN Throw(TypeError, <<>>)
    ELSE Return(Bool(Get(h, union, DefaultKey(discriminant)) = type), <<>>)

\* How S.filter(...) ends: the array it returned, or what the callback
\* threw.
Kept(S) == [st |-> "return", val |-> Undef, kept |-> S]

Raised(e) == [st |-> "throw", val |-> e, kept |-> <<>>]

\* S.filter((s) => is(s, type, discriminant)): the elements are visited in
\* order, an element is kept when the callback returns true, and a throw of
\* the callback ends the filtering.
RECURSIVE filter(_, _, _, _)
filter(h, S, type, discriminant) ==
  IF S = <<>> THEN Kept(<<>>)
  ELSE LET r == is(h, Head(S), type, discriminant)
           rest == filter(h, Tail(S), type, discriminant)
       IN  IF r.st = "throw" THEN Raised(r.val)
           ELSE IF rest.st = "throw" THEN rest
           ELSE IF r.val = Bool(TRUE) THEN Kept(<<Head(S)>> \o rest.kept)
           ELSE rest

\* Mutant of dispatch: the handler is called without the value, fn().
dispatch_callsWithoutValue(h, union, handlers, discriminant, fallback) ==
  LET fn == Lookup(handlers, ToKey(Get(h, union, discriminant)))
  IN  IF fn.src # "none"
        THEN Return(Call(fn, NoArg), <<Invocation(fn, NoArg)>>)
      ELSE IF fallback.src # "none"
        THEN Return(Call(fallback, NoArg), <<Invocation(fallback, NoArg)>>)
      ELSE Throw(IncompleteMatcher, <<>>)

\* Mutant of dispatch: the handler is looked up under union.type whatever
\* the discriminant is.
dispatch_readsType(h, union, handlers, discriminant, fallback) ==
  LET fn == Lookup(handlers, ToKey(Get(h, union, "type")))
  IN  IF fn.src # "none"
        THEN Return(Call(fn, union), <<Invocation(fn, union)>>)
      ELSE IF fallback.src # "none"
        THEN Return(Call(fallback, NoArg), <<Invocation(fallback, NoArg)>>)
      ELSE Throw(IncompleteMatcher, <<>>)

\* Mutant of dispatch: the fallback is evaluated before the lookup, and the
\* handler is invoked as well when there is one.
dispatch_callsBoth(h, union, handlers, discriminant, fallback) ==
  LET fn == Lookup(handlers, ToKey(Get(h, union, discriminant)))
      first == IF fallback.src # "none"
                 THEN <<Invocation(fallback, NoArg)>> ELSE <<>>
  IN  IF fn.src # "none"
        THEN Return(Call(fn, union), first \o <<Invocation(fn, union)>>)
      ELSE IF fallback.src # "none"
        THEN Return(Call(fallback, NoArg), first)
      ELSE Throw(IncompleteMatcher, <<>>)

\* Mutant of dispatch: a handler that throws is treated as a missing one.
dispatch_swallowsFailure(h, union, handlers, discriminant, fallback) ==
  LET fn == Lookup(handlers, ToKey(Get(h, union, discriminant)))
  IN  IF fn.src # "none" /\ fn.beh # "throw"
        THEN Invoke(fn, union)
      ELSE IF fallback.src # "none" /\ fallback.beh # "throw"
        THEN Invoke(fallback, NoArg)
      ELSE Throw(IncompleteMatcher, <<>>)

dispatch(h, union, handlers, discriminant, fallback) ==
  LET fn == Lookup(handlers, ToKey(Get(h, union, discriminant)))
  IN  IF fn.src # "none"
        THEN Invoke(fn, union)
      ELSE IF fallback.src # "none"
        THEN Invoke(fallback, NoArg)
      ELSE Throw(IncompleteMatcher, <<>>)

\* Mutant of guard: only null and undefined are rejected, if (input == null).
guard_rejectsOnlyNullish(h, input, discriminant, c) ==
  IF input \in {Null, Undef}
    THEN Throw(clearStackTrace(InvalidInput), <<>>)
    ELSE ReturnClosure(c)

\* guard(input, discriminant, caller, fn) where fn() builds the closure c.
guard(h, input, discriminant, c) ==
  IF ~isUnion(h, input, discriminant)
    THEN Throw(clearStackTrace(InvalidInput), <<>>)
    ELSE ReturnClosure(c)

\* Mutant of mapClosure: a result whose discriminant differs from the
\* input's is replaced by the input.
mapClosure_repairsTag(h, input, discriminant, mapper) ==
  LET r == dispatch(h, input, mapper, discriminant,
                    Fn("synthetic", "", "input", input))
  IN  IF r.st = "return"
         /\ Get(h, r.val, discriminant) # Get(h, input, discriminant)
        THEN Return(input, r.calls)
        ELSE r

\* Mutant of mapClosure: no fallback is passed to dispatch.
mapClosure_noFallback(h, input, discriminant, mapper) ==
  dispatch(h, input, mapper, discriminant, NoFn)

\* Mutant of mapClosure: the handler is called without the value.
mapClosure_callsWithoutValue(h, input, discriminant, mapper) ==
  dispatch_callsWithoutValue(h, input, mapper, discriminant,
                             Fn("synthetic", "", "input", input))

\* The closure map returns: (mapper) => dispatch(input, mapper,
\* discriminant, () => input).
mapClosure(h, input, discriminant, mapper) ==
  dispatch(h, input, mapper, discriminant, Fn("synthetic", "", "input", input))

map(h, input, discriminant) ==
  LET d == DefaultKey(discriminant)
  IN  guard(h, input, d, Closure("map", input, d))

\* Mutant of mapAllClosure: the handler is called without the value.
mapAllClosure_callsWithoutValue(h, input, discriminant, mapper) ==
  dispatch_callsWithoutValue(h, input, mapper, discriminant, NoFn)

mapAllClosure(h, input, discriminant, mapper) ==
  dispatch(h, input, mapper, discriminant, NoFn)

mapAll(h, input, discriminant) ==
  LET d == DefaultKey(discriminant)
  IN  guard(h, input, d, Closure("mapAll", input, d))

matchClosure(h, input, discriminant, matcher) ==
  dispatch(h, input, matcher, discriminant, NoFn)

match(h, input, discriminant) ==
  LET d == DefaultKey(discriminant)
  IN  guard(h, input, d, Closure("match", input, d))

\* Mutant of matchWithDefaultClosure: an entry spelled default serves as
\* the fallback when there is no Default.
matchWithDefaultClosure_anyCase(h, input, discriminant, matcher) ==
  dispatch(h, input, matcher, discriminant,
           IF Lookup(matcher, "Default").src # "none"
             THEN Lookup(matcher, "Default")
             ELSE Lookup(matcher, "default"))

\* matcher.Default is read as a property of the table.
matchWithDefaultClosure(h, input, discriminant, matcher) ==
  dispatch(h, input, matcher, discriminant, Lookup(matcher, "Default"))

matchWithDefault(h, input, discriminant) ==
  LET d == DefaultKey(discriminant)
  IN  guard(h, input, d, Closure("matchWithDefault", input, d))

Ops == {"match", "matchWithDefault", "map", "mapAll"}

----------------------------------------------------------------------------
(* module.ts: the Module the older unions.ts delegates to                  *)

\* Calling matcher['Default'] when it is undefined throws this.
NotAFunction == Err("TypeError: matcher.Default is not a function")

Module_match(h, union, matcher, discriminant) ==
  LET fn == Lookup(matcher, ToKey(Get(h, union, discriminant)))
  IN  IF fn.src = "none"
        THEN Throw(IncompleteMatcher, <<>>)
        ELSE Invoke(fn, union)

Module_matchWithDefault(h, union, matcher, discriminant) ==
  LET fn == Lookup(matcher, ToKey(Get(h, union, discriminant)))
      dflt == Lookup(matcher, "Default")
  IN  IF fn.src = "none"
        THEN IF dflt.src = "none"
               THEN Throw(NotAFunction, <<>>)
               ELSE Invoke(dflt, NoArg)
        ELSE Invoke(fn, union)

\* matchWithDefault(union, {...mapper, Default: () => union}, discriminant):
\* in the table built by the spread, Default is the new closure whatever
\* the mapper held under that key.
Module_map(h, union, mapper, discriminant) ==
  LET key == ToKey(Get(h, union, discriminant))
      dflt == Fn("synthetic", "Default", "input", union)
      fn == IF key = "Default" THEN dflt ELSE Lookup(mapper, key)
  IN  IF fn.src = "none" THEN Invoke(dflt, NoArg) ELSE Invoke(fn, union)

Module_mapAll(h, union, mapper, discriminant) ==
  Module_map(h, union, mapper, discriminant)

\* c(handlers) for a closure c of the older unions.ts, which validates as
\* the newer one does and returns (handlers) => Module.op(input, handlers,
\* discriminant).
ApplyModuleClosure(h, c, handlers) ==
  CASE c.op = "map" -> Module_map(h, c.input, handlers, c.d)
    [] c.op = "mapAll" -> Module_mapAll(h, c.input, handlers, c.d)
    [] c.op = "match" -> Module_match(h, c.input, handlers, c.d)
    [] c.op = "matchWithDefault" ->
         Module_matchWithDefault(h, c.input, handlers, c.d)

\* Mutant of ApplyClosure: a closure whose application threw is spent and
\* throws the same error from then on.
ApplyClosure_spentAfterFailure(h, c, handlers) ==
  IF last.kind = "apply" /\ last.out.st = "throw" THEN last.out
  ELSE CASE c.op = "map" -> mapClosure(h, c.input, c.d, handlers)
         [] c.op = "mapAll" -> mapAllClosure(h, c.input, c.d, handlers)
         [] c.op = "match" -> matchClosure(h, c.input, c.d, handlers)
         [] c.op = "matchWithDefault" ->
              matchWithDefaultClosure(h, c.input, c.d, handlers)

\* Mutant of ApplyClosure: the value is validated again when the closure is
\* applied.
ApplyClosure_revalidates(h, c, handlers) ==
  IF ~isUnion(h, c.input, c.d) THEN Throw(clearStackTrace(InvalidInput), <<>>)
  ELSE CASE c.op = "map" -> mapClosure(h, c.input, c.d, handlers)
         [] c.op = "mapAll" -> mapAllClosure(h, c.input, c.d, handlers)
         [] c.op = "match" -> matchClosure(h, c.input, c.d, handlers)
         [] c.op = "matchWithDefault" ->
              matchWithDefaultClosure(h, c.input, c.d, handlers)

\* c(handlers) for a closure c one of the four operations returned.
ApplyClosure(h, c, handlers) ==
  CASE c.op = "map" -> mapClosure(h, c.input, c.d, handlers)
    [] c.op = "mapAll" -> mapAllClosure(h, c.input, c.d, handlers)
    [] c.op = "match" -> matchClosure(h, c.input, c.d, handlers)
    [] c.op = "matchWithDefault" ->
         matchWithDefaultClosure(h, c.input, c.d, handlers)

\* r(handlers) where r is what op(input, discriminant) ended with: a throw
\* of the first call ends the whole expression.
Then(h, r, handlers) ==
  IF r.st = "throw" THEN r ELSE ApplyClosure(h, r.closure, handlers)

\* Mutant of createPipeHandlers: the object has no mapAll method.
createPipeHandlers_withoutMapAll(discriminant) ==
  [d |-> discriminant, methods |-> Ops \ {"mapAll"}]

\* createPipeHandlers(discriminant): an object of four methods that all
\* captured discriminant.
createPipeHandlers(discriminant) == [d |-> discriminant, methods |-> Ops]

NoFactory == [d |-> "", methods |-> {}]

\* The function a factory method returns: the method and what it captured.
Piped(op, discriminant, handlers) ==
  [op |-> op, d |-> discriminant, H |-> handlers]

NoPipe == Piped("none", "", EmptyTable)

pipeMatch(h, discriminant, handlers, input) ==
  Then(h, match(h, input, discriminant), handlers)

pipeMatchWithDefault(h, discriminant, handlers, input) ==
  Then(h, matchWithDefault(h, input, discriminant), handlers)

\* Mutant of pipeMap: the discriminant is not passed on, map(input)(handlers).
pipeMap_dropsDiscriminant(h, discriminant, handlers, input) ==
  Then(h, map(h, input, "type"), handlers)

pipeMap(h, discriminant, handlers, input) ==
  Then(h, map(h, input, discriminant), handlers)

pipeMapAll(h, discriminant, handlers, input) ==
  Then(h, mapAll(h, input, discriminant), handlers)

\* Mutant of ApplyPiped: the key lives in one variable of the module, which
\* the second factory overwrote.
ApplyPiped_sharesKey(h, p, input) ==
  LET k == IF factory2.d # "" THEN factory2.d ELSE p.d
  IN  Then(h, guard(h, input, k, Closure(p.op, input, k)), p.H)

\* Mutant of ApplyPiped: validation is skipped once an application of p has
\* succeeded.
ApplyPiped_cachesValidation(h, p, input) ==
  IF last.kind = "pipeapply" /\ last.out.st = "return"
    THEN ApplyClosure(h, Closure(p.op, input, p.d), p.H)
    ELSE Then(h, guard(h, input, p.d, Closure(p.op, input, p.d)), p.H)

\* p(input) for a function p a factory method returned.
ApplyPiped(h, p, input) ==
  CASE p.op = "match" -> pipeMatch(h, p.d, p.H, input)
    [] p.op = "matchWithDefault" -> pipeMatchWithDefault(h, p.d, p.H, input)
    [] p.op = "map" -> pipeMap(h, p.d, p.H, input)
    [] p.op = "mapAll" -> pipeMapAll(h, p.d, p.H, input)

----------------------------------------------------------------------------
(* The caller's program                                                    *)

\* The last call the caller made and how it ended.
Record(kind, op, input, d, H, out) ==
  [kind |-> kind, op |-> op, input |-> input, d |-> d, H |-> H, out |-> out]

\* A call of a predicate: isUnion(x, d), is(x, t, d) or
\* S.filter((s) => is(s, t, d)), and how it ended.
Asked(fn, x, S, t, d, out) ==
  [fn |-> fn, x |-> x, S |-> S, t |-> t, d |-> d, out |-> out]

NoAsked == Asked("none", Undef, <<>>, Undef, "", Kept(<<>>))

Init ==
  /\ heap = InitHeap
  /\ bound = NoClosure
  /\ factory = NoFactory
  /\ pipe = NoPipe
  /\ last = Record("init", "none", Undef, "", EmptyTable, Return(Undef, <<>>))
  /\ prev = "none"
  /\ factory2 = NoFactory
  /\ pipe2 = NoPipe
  /\ pred = NoAsked

\* Mutant of Bind: the operation stamps the value it was given.
Bind_stampsInput(op, r, input, d) ==
  /\ bound = NoClosure
  /\ last' = Record("bind", op, input, d, EmptyTable, r)
  /\ bound' = IF r.st = "return" THEN r.closure ELSE bound
  /\ heap' = IF input.t = "object"
               THEN [heap EXCEPT ![input.n].f["radius"] = Num(0)]
               ELSE heap
  /\ UNCHANGED <<factory, pipe, prev, others>>

\* const f = op(input, d): on a throw f is not initialised, and the caller
\* may try again.
Bind(op, r, input, d) ==
  /\ bound = NoClosure
  /\ last' = Record("bind", op, input, d, EmptyTable, r)
  /\ bound' = IF r.st = "return" THEN r.closure ELSE bound
  /\ UNCHANGED <<heap, factory, pipe, prev, others>>

Match ==
  \E input \in Inputs, d \in KeyArgs :
    Bind("match", match(heap, input, d), input, d)

MatchWithDefault ==
  \E input \in Inputs, d \in KeyArgs :
    Bind("matchWithDefault", matchWithDefault(heap, input, d), input, d)

Map ==
  \E input \in Inputs, d \in KeyArgs :
    Bind("map", map(heap, input, d), input, d)

MapAll ==
  \E input \in Inputs, d \in KeyArgs :
    Bind("mapAll", mapAll(heap, input, d), input, d)

\* f(handlers) for the closure f the caller holds and a table of T.
ApplyFrom(T) ==
  /\ bound # NoClosure
  /\ \E H \in T :
       last' = Record("apply", bound.op, bound.input, bound.d, H,
                      ApplyClosure(heap, bound, H))
  /\ UNCHANGED <<heap, bound, factory, pipe, prev, others>>

Apply == ApplyFrom(Tables)

Next == Match \/ MatchWithDefault \/ Map \/ MapAll \/ Apply

Spec == Init /\ [][Next]_vars

\* const ops = createPipeHandlers(d)
CreatePipeHandlers ==
  /\ factory = NoFactory
  /\ \E d \in Discriminants :
       /\ factory' = createPipeHandlers(d)
       /\ last' = Record("create", "none", Undef, d, EmptyTable,
                          Return(FnVal("ops"), <<>>))
  /\ UNCHANGED <<heap, bound, pipe, prev, others>>

\* const p = ops.op(handlers), for a table of T
PipeBindFrom(T) ==
  /\ factory # NoFactory
  /\ pipe = NoPipe
  /\ \E op \in factory.methods, H \in T :
       /\ pipe' = Piped(op, factory.d, H)
       /\ last' = Record("pipebind", op, Undef, factory.d, H,
                          Return(FnVal(op), <<>>))
  /\ UNCHANGED <<heap, bound, factory, prev, others>>

PipeBind == PipeBindFrom(Tables)

\* p(input), for a value of X.  prev tells how the application of p before
\* this one ended, "other" when p2 was applied in between.
PipeApplyTo(X) ==
  /\ pipe # NoPipe
  /\ \E input \in X :
       last' = Record("pipeapply", pipe.op, input, pipe.d, pipe.H,
                      ApplyPiped(heap, pipe, input))
  /\ prev' = (CASE last.kind = "pipeapply" -> Ending(last.out)
                [] last.kind = "pipeapply2" -> "other"
                [] OTHER -> "none")
  /\ UNCHANGED <<heap, bound, factory, pipe, others>>

PipeApply == PipeApplyTo(Inputs)

PipeNext == CreatePipeHandlers \/ PipeBind \/ PipeApply

PipeSpec == Init /\ [][PipeNext]_vars

\* The tags a caller asks is about.
Tags == {Str("circle"), Str("dog"), Str("")}

\* The elements of the arrays a caller filters.
Elements == {Null, Ref(1), Ref(2), Ref(3), Ref(4)}

RECURSIVE Arrays(_)
Arrays(n) ==
  IF n = 0 THEN {<<>>}
  ELSE Arrays(n - 1) \cup {Append(S, e) : S \in Arrays(n - 1), e \in Elements}

\* isUnion(x, d)
IsUnion ==
  /\ pred = NoAsked
  /\ \E x \in Inputs, d \in KeyArgs :
       LET b == isUnion(heap, x, d)
       IN  pred' = Asked("isUnion", x, <<>>, Undef, d,
                         [st |-> "return", val |-> Bool(b), kept |-> <<>>])
  /\ UNCHANGED <<heap, bound, factory, pipe, last, prev, second>>

\* is(x, t, d)
Is ==
  /\ pred = NoAsked
  /\ \E x \in Inputs, t \in Tags, d \in KeyArgs :
       LET r == is(heap, x, t, d)
       IN  pred' = Asked("is", x, <<>>, t, d,
                         [st |-> r.st, val |-> r.val, kept |-> <<>>])
  /\ UNCHANGED <<heap, bound, factory, pipe, last, prev, second>>

\* S.filter((s) => is(s, t, d))
Filter ==
  /\ pred = NoAsked
  /\ \E S \in Arrays(MaxLen), t \in Tags, d \in KeyArgs :
       pred' = Asked("filter", Undef, S, t, d, filter(heap, S, t, d))
  /\ UNCHANGED <<heap, bound, factory, pipe, last, prev, second>>

PredNext == IsUnion \/ Is \/ Filter

PredSpec == Init /\ [][PredNext]_vars

\* Two factories side by side (unions.test.ts, "two independent
\* createPipeHandlers instances"): tables of at most one entry and a few
\* values, so that every interleaving of the two is explored.
FewTables ==
  {H \in Tables : Cardinality(OwnKeys(H)) <= 1
                    /\ OwnKeys(H) \subseteq {"circle", "Default"}}

FewInputs == {Ref(1), Ref(3), Ref(4)}

PipeBindFew == PipeBindFrom(FewTables)

PipeApplyFew == PipeApplyTo(FewInputs)

\* const ops2 = createPipeHandlers(d)
CreatePipeHandlers2 ==
  /\ factory2 = NoFactory
  /\ \E d \in Discriminants :
       /\ factory2' = createPipeHandlers(d)
       /\ last' = Record("create2", "none", Undef, d, EmptyTable,
                          Return(FnVal("ops"), <<>>))
  /\ UNCHANGED <<heap, bound, factory, pipe, prev, pipe2, pred>>

\* const p2 = ops2.op(handlers)
PipeBind2 ==
  /\ factory2 # NoFactory
  /\ pipe2 = NoPipe
  /\ \E op \in factory2.methods, H \in FewTables :
       /\ pipe2' = Piped(op, factory2.d, H)
       /\ last' = Record("pipebind2", op, Undef, factory2.d, H,
                          Return(FnVal(op), <<>>))
  /\ UNCHANGED <<heap, bound, factory, pipe, prev, factory2, pred>>

\* p2(input)
PipeApply2 ==
  /\ pipe2 # NoPipe
  /\ \E input \in FewInputs :
       last' = Record("pipeapply2", pipe2.op, input, pipe2.d, pipe2.H,
                      ApplyPiped(heap, pipe2, input))
  /\ UNCHANGED <<heap, bound, factory, pipe, prev, second, pred>>

TwoNext ==
  \/ CreatePipeHandlers \/ PipeBindFew \/ PipeApplyFew
  \/ CreatePipeHandlers2 \/ PipeBind2 \/ PipeApply2

TwoSpec == Init /\ [][TwoNext]_vars

\* Tables of at most one entry.
OneEntryTables == {H \in Tables : Cardinality(OwnKeys(H)) <= 1}

\* f(H1), f(H2), ...: the closure is applied again and again.  prev tells
\* how the application before this one ended.
ApplyAgain ==
  /\ bound # NoClosure
  /\ \E H \in OneEntryTables :
       last' = Record("apply", bound.op, bound.input, bound.d, H,
                      ApplyClosure(heap, bound, H))
  /\ prev' = (IF last.kind = "apply" THEN Ending(last.out) ELSE "none")
  /\ UNCHANGED <<heap, bound, factory, pipe, others>>

ReuseNext == Match \/ MatchWithDefault \/ Map \/ MapAll \/ ApplyAgain

ReuseSpec == Init /\ [][ReuseNext]_vars

\* What the caller assigns to the discriminant field of a bound value: a
\* number, another tag, or nothing (delete v[d]).
Written == {Num(5), Str("dog"), Undef}

\* v[d] = x, once, for the value v and the key d of the closure the caller
\* holds.
Write ==
  /\ bound # NoClosure
  /\ heap = InitHeap
  /\ \E x \in Written :
       heap' = [heap EXCEPT ![bound.input.n].f[bound.d] = x]
  /\ last' = Record("write", "none", bound.input, bound.d, EmptyTable,
                     Return(Undef, <<>>))
  /\ UNCHANGED <<bound, factory, pipe, prev, others>>

ApplyLater == ApplyFrom(OneEntryTables)

WriteNext == Match \/ MatchWithDefault \/ Map \/ MapAll \/ Write \/ ApplyLater

WriteSpec == Init /\ [][WriteNext]_vars

\* Tables with an entry that throws.
ThrowingTables ==
  {H \in [TableKeys -> Behaviours \cup {"throw", "absent"}] :
     /\ Cardinality(OwnKeys(H)) <= MaxEntries
     /\ \E k \in TableKeys : H[k] = "throw"}

ApplyThrowing == ApplyFrom(ThrowingTables)

PipeBindThrowing == PipeBindFrom(ThrowingTables)

\* A caller whose handlers may throw, in the value-first form or with a
\* factory.
ThrowNext ==
  \/ factory = NoFactory /\ Match
  \/ factory = NoFactory /\ MatchWithDefault
  \/ factory = NoFactory /\ Map
  \/ factory = NoFactory /\ MapAll
  \/ factory = NoFactory /\ ApplyThrowing
  \/ bound = NoClosure /\ CreatePipeHandlers
  \/ bound = NoClosure /\ PipeBindThrowing
  \/ bound = NoClosure /\ PipeApply

ThrowSpec == Init /\ [][ThrowNext]_vars

\* Tables whose keys differ in case only from Default.
CaseKeys == {"circle", "Default", "default"}

CaseTables ==
  {H \in [CaseKeys -> Behaviours \cup {"absent"}] :
     Cardinality(OwnKeys(H)) <= MaxEntries}

ApplyCase == ApplyFrom(CaseTables)

CaseNext == MatchWithDefault \/ ApplyCase

CaseSpec == Init /\ [][CaseNext]_vars

\* A caller that uses one of the three families of calls: the value-first
\* operations, a factory, or the predicates.
AnyNext ==
  \/ factory = NoFactory /\ pred = NoAsked /\ Match
  \/ factory = NoFactory /\ pred = NoAsked /\ MatchWithDefault
  \/ factory = NoFactory /\ pred = NoAsked /\ Map
  \/ factory = NoFactory /\ pred = NoAsked /\ MapAll
  \/ factory = NoFactory /\ pred = NoAsked /\ Apply
  \/ bound = NoClosure /\ pred = NoAsked /\ CreatePipeHandlers
  \/ bound = NoClosure /\ pred = NoAsked /\ PipeBind
  \/ bound = NoClosure /\ pred = NoAsked /\ PipeApply
  \/ last.kind = "init" /\ IsUnion
  \/ last.kind = "init" /\ Is
  \/ last.kind = "init" /\ Filter

AnySpec == Init /\ [][AnyNext]_vars

----------------------------------------------------------------------------
(* Properties                                                              *)

\* x is a tagged variant under d: a record whose field d holds a string.
IsTagged(x, d) ==
  /\ x.t = "object"
  /\ d \in DOMAIN heap[x.n].f
  /\ heap[x.n].f[d].t = "string"

\* The discriminant value of a tagged variant.
TagOf(x, d) == heap[x.n].f[d].s

\* The caller put an entry under key k in table H.
HasEntry(H, k) == k \in TableKeys /\ H[k] # "absent"

\* The function the caller put under key k.
Handler(H, k) == Fn("own", k, H[k], Undef)

\* The last call applied a closure of operation op to a handler table.
Applied(op) == last.kind = "apply" /\ last.op = op

LastTag == TagOf(last.input, last.d)

\* C1: for a tagged variant v and a table H with an entry for v[d],
\* match(v, d) returns a closure and match(v, d)(H) invokes H[v[d]] once,
\* with v itself, and returns exactly what that handler returned.
C1_MatchReturnsHandlerResult ==
  /\ (last.kind = "bind" /\ last.op = "match"
        /\ IsTagged(last.input, last.d)) => last.out.st = "return"
  /\ (Applied("match") /\ HasEntry(last.H, LastTag)) =>
       LET fn == Handler(last.H, LastTag)
       IN  last.out = Return(Call(fn, last.input),
                             <<Invocation(fn, last.input)>>)

C1_Witness ==
  /\ Applied("match")
  /\ last.input = Ref(1)
  /\ last.H["circle"] = "id"
  /\ last.out.val = Ref(1)

\* C2: for each of match, matchWithDefault, map and mapAll, a value that
\* does not satisfy isUnion(v, d) makes op(v, d) throw the Invalid Input
\* error at once: no closure is returned, nothing is invoked, and no
\* closure is ever applied for such a value.
C2_InvalidInputThrowsAtOnce ==
  /\ (last.kind = "bind" /\ ~isUnion(heap, last.input, last.d)) =>
       /\ last.op \in Ops
       /\ last.out = Throw(InvalidInput, <<>>)
       /\ bound = NoClosure
  /\ last.kind = "apply" => isUnion(heap, last.input, last.d)
  /\ bound # NoClosure => isUnion(heap, bound.input, bound.d)

C2_Witness ==
  /\ last.kind = "bind"
  /\ last.op = "mapAll"
  /\ last.input = Ref(5)
  /\ last.d = "type"
  /\ last.out.val = InvalidInput

\* C3: for a tagged variant v and a table H without an entry for v[d],
\* match(v, d)(H) throws Matcher incomplete! and invokes nothing.
C3_MatchWithoutEntryThrows ==
  (Applied("match") /\ ~HasEntry(last.H, LastTag)) =>
    last.out = Throw(IncompleteMatcher, <<>>)

\* The table without its Default entry.
Partial(H) == [k \in TableKeys |-> IF k = "Default" THEN "absent" ELSE H[k]]

\* C4: with P the table's entries other than Default and dflt its Default
\* entry, matchWithDefault(v, d)({...P, Default: dflt}) returns P[v[d]](v)
\* when P has an entry for v[d], without invoking Default, and returns
\* dflt() otherwise.
C4_MatchWithDefaultReturns ==
  (Applied("matchWithDefault") /\ HasEntry(last.H, "Default")) =>
    IF HasEntry(Partial(last.H), LastTag)
      THEN LET fn == Handler(last.H, LastTag)
           IN  last.out = Return(Call(fn, last.input),
                                 <<Invocation(fn, last.input)>>)
      ELSE LET dflt == Handler(last.H, "Default")
           IN  last.out = Return(Call(dflt, NoArg), <<Invocation(dflt, NoArg)>>)

\* C5: for a tagged variant v and a table M without an entry for v[d],
\* map(v, d)(M) returns v itself, invokes no function of the caller and
\* leaves every object as it was.
C5_MapWithoutEntryReturnsInput ==
  (Applied("map") /\ ~HasEntry(last.H, LastTag)) =>
    /\ last.out.st = "return"
    /\ last.out.val = last.input
    /\ \A i \in DOMAIN last.out.calls : last.out.calls[i].fn.src # "own"
    /\ heap = InitHeap

\* C6: for a tagged variant v and a table M with an entry for v[d],
\* map(v, d)(M) invokes M[v[d]] once and returns exactly what that call
\* returned, whatever discriminant the result carries.
C6_MapReturnsHandlerResultAsIs ==
  (Applied("map") /\ HasEntry(last.H, LastTag)) =>
    /\ last.out.st = "return"
    /\ Len(last.out.calls) = 1
    /\ last.out.calls[1].fn = Handler(last.H, LastTag)
    /\ last.out.val = Call(last.out.calls[1].fn, last.out.calls[1].arg)

\* A result with another tag than the input's was returned as it is.
C6_Witness ==
  /\ Applied("map")
  /\ last.input = Ref(1)
  /\ last.H["circle"] = "obj"
  /\ last.out.val = Ref(3)
  /\ Get(heap, last.out.val, last.d) # Get(heap, last.input, last.d)

\* C7: map and mapAll invoke the selected handler with the payload fields
\* only (the argument has no discriminant field), match and
\* matchWithDefault invoke it with the entire value.
C7_MapHandlersGetPayloadOnly ==
  (last.kind = "apply" /\ HasEntry(Partial(last.H), LastTag)) =>
    /\ Len(last.out.calls) = 1
    /\ IF last.op \in {"map", "mapAll"}
         THEN /\ last.out.calls[1].arg # last.input
              /\ Get(heap, last.out.calls[1].arg, last.d) = Undef
         ELSE last.out.calls[1].arg = last.input

\* C8: for a tagged variant v and a table M without an entry for v[d],
\* mapAll(v, d)(M) throws Matcher incomplete! and does not return v.
C8_MapAllWithoutEntryThrows ==
  (Applied("mapAll") /\ ~HasEntry(last.H, LastTag)) =>
    /\ last.out.st = "throw"
    /\ last.out.val = IncompleteMatcher

\* op(x, d) for the value-first operation named op.
ValueFirst(op, x, d) ==
  CASE op = "match" -> match(heap, x, d)
    [] op = "matchWithDefault" -> matchWithDefault(heap, x, d)
    [] op = "map" -> map(heap, x, d)
    [] op = "mapAll" -> mapAll(heap, x, d)

\* C9: createPipeHandlers(d).op(H)(x) ends as op(x, d)(H) does: the same
\* returned value (the same reference) or the same error, after the same
\* invocations, for every key d, table H, operation op and value x.
C9_PipeEqualsValueFirst ==
  last.kind = "pipeapply" =>
    /\ last.op = pipe.op /\ last.d = pipe.d /\ last.H = pipe.H
    /\ pipe.d = factory.d
    /\ last.out = Then(heap, ValueFirst(last.op, last.input, last.d), last.H)

\* A variant under the custom key passes through map by reference.
C9_Witness ==
  /\ last.kind = "pipeapply"
  /\ last.op = "map"
  /\ last.d = "kind"
  /\ last.input = Ref(4)
  /\ ~HasEntry(last.H, "dog")
  /\ last.out.val = Ref(4)

\* C10: whatever applications of p = createPipeHandlers(d).op(H) came
\* before, p(x) throws Invalid Input iff x does not satisfy isUnion(x, d),
\* and otherwise ends as the dispatch of x on H does.
C10_PipeValidatesEveryCall ==
  last.kind = "pipeapply" =>
    /\ Ending(last.out) = "invalid" <=> ~isUnion(heap, last.input, last.d)
    /\ isUnion(heap, last.input, last.d) =>
         last.out = ApplyClosure(heap, Closure(last.op, last.input, last.d),
                                 last.H)

\* An invalid value is rejected right after an application that succeeded.
C10_Witness ==
  /\ last.kind = "pipeapply"
  /\ prev = "return"
  /\ last.input = Ref(10)
  /\ Ending(last.out) = "invalid"

\* C11: with two factories (same key or different keys) and any
\* interleaving of creating them, binding tables and applying the bound
\* functions, each application p(x) ends as if p were alone: as
\* op(x, d)(H) for the method op, the key d of its own factory and its own
\* table H, whatever the other factory and the other function are and
\* whatever was applied before.
C11_BoundFunctionsShareNoState ==
  /\ last.kind = "pipeapply" =>
       last.out = Then(heap, ValueFirst(pipe.op, last.input, factory.d),
                       pipe.H)
  /\ last.kind = "pipeapply2" =>
       last.out = Then(heap, ValueFirst(pipe2.op, last.input, factory2.d),
                       pipe2.H)

\* p is applied right after p2, which has another key and another table.
C11_Witness ==
  /\ last.kind = "pipeapply"
  /\ prev = "other"
  /\ pipe2.d = "type" /\ pipe.d = "kind"
  /\ pipe2.H # pipe.H
  /\ last.input = Ref(4)
  /\ last.out.st = "return"

\* x is a structured record: an object that is not an array.
IsRecord(x) == x.t = "object" /\ ~heap[x.n].isArray

IsArray(x) == x.t = "object" /\ heap[x.n].isArray

\* C12: isUnion(x, d) returns true iff x is a non-null structured record
\* whose field d holds a string; so it returns false for null, undefined,
\* primitives, records without d and records whose d is not a string, and
\* true for a record whose d is the empty string.
C12_IsUnionIffRecordWithStringField ==
  (pred.fn = "isUnion" /\ pred.d \in Discriminants) =>
    (pred.out.val = Bool(TRUE)
       <=> (IsRecord(pred.x) /\ heap[pred.x.n].f[pred.d].t = "string"))

\* C13: isUnion(x, d) is false for every array x, whatever named fields
\* it carries and whatever d is, and each of the four operations rejects
\* an array with Invalid Input.
C13_ArraysAreRejected ==
  (last.kind = "bind" /\ IsArray(last.input)) =>
    /\ ~isUnion(heap, last.input, last.d)
    /\ last.out = Throw(InvalidInput, <<>>)

\* The field d of s strictly equals t.
FieldIs(s, d, t) ==
  /\ s.t = "object"
  /\ d \in DOMAIN heap[s.n].f
  /\ heap[s.n].f[d] = t

\* C14: for every array S and tag t, S.filter((s) => is(s, t, d)) returns
\* exactly the elements of S whose field d strictly equals t, in their
\* order in S and as the same references (the empty array when there is
\* none).
C14_FilterKeepsExactlyTheTagged ==
  (pred.fn = "filter" /\ pred.d \in Discriminants) =>
    pred.out = Kept(SelectSeq(pred.S, LAMBDA s : FieldIs(s, pred.d, pred.t)))

\* C15: is(x, t, d) never fails: for every x, null, undefined, primitives
\* and records without d included, it returns a boolean, and it returns
\* false when x is not a tagged variant under d.
C15_IsNeverFails ==
  pred.fn = "is" =>
    /\ pred.out.st = "return"
    /\ pred.out.val \in {Bool(TRUE), Bool(FALSE)}
    /\ (pred.d \in Discriminants /\ ~IsTagged(pred.x, pred.d)) =>
         pred.out.val = Bool(FALSE)

\* C16: with a custom key d every operation and both predicates read the
\* field d only: op(v, d) is valid iff v[d] is a string (so a value with a
\* string type and no string kind is Invalid Input under kind, and a
\* value with only a string kind is Invalid Input under type), the handler
\* invoked is the entry under v[d] when the table has one, and no entry
\* under another key is ever invoked as a handler, whatever the other
\* fields of v are; isUnion and is answer from v[d] alone.
C16_OnlyTheKeyFieldIsRead ==
  /\ (last.kind = "bind" /\ last.d \in Discriminants) =>
       IF IsTagged(last.input, last.d)
         THEN last.out.st = "return"
         ELSE last.out = Throw(InvalidInput, <<>>)
  /\ last.kind = "apply" =>
       IF HasEntry(last.H, LastTag)
         THEN /\ Len(last.out.calls) = 1
              /\ last.out.calls[1].fn = Handler(last.H, LastTag)
         ELSE \A i \in DOMAIN last.out.calls :
                last.out.calls[i].fn.src = "own" =>
                  /\ last.out.calls[i].fn.key = "Default"
                  /\ last.out.calls[i].arg = NoArg
  /\ last.kind \in {"bind", "apply"} =>
       \A x \in Refs, d \in Discriminants :
         /\ isUnion(heap, x, d) <=> heap[x.n].f[d].t = "string"
         /\ \A t \in Tags :
              is(heap, x, t, d) = Return(Bool(heap[x.n].f[d] = t), <<>>)

\* A value with type square and kind dog is dispatched on dog under kind.
C16_Witness ==
  /\ Applied("match")
  /\ last.d = "kind"
  /\ last.input = Ref(3)
  /\ HasEntry(last.H, "dog")
  /\ HasEntry(last.H, "circle")
  /\ last.out.calls[1].fn.key = "dog"

\* C17: leaving the discriminant out is the same as passing 'type': for
\* every value x, isUnion(x) = isUnion(x, 'type'), is(x, t) =
\* is(x, t, 'type') for every tag t, op(x) ends as op(x, 'type') does, and
\* the closure it returns ends as op(x, 'type')(H) does on every table H.
C17_OmittedKeyIsType ==
  (last.kind = "bind" /\ last.d = Omitted) =>
    /\ isUnion(heap, last.input, Omitted) = isUnion(heap, last.input, "type")
    /\ \A t \in Tags :
         is(heap, last.input, t, Omitted) = is(heap, last.input, t, "type")
    /\ last.out = ValueFirst(last.op, last.input, "type")
    /\ last.out.st = "return" =>
         \A H \in Tables :
           ApplyClosure(heap, last.out.closure, H)
             = Then(heap, ValueFirst(last.op, last.input, "type"), H)

C17_Witness ==
  /\ last.kind = "bind"
  /\ last.d = Omitted
  /\ last.input = Ref(1)
  /\ last.out.st = "return"
  /\ bound.d = "type"

\* The function invoked is the one found under v[d], called with v.
Selected(c) ==
  /\ c.fn.src \in {"own", "inherited"}
  /\ c.fn.key = LastTag
  /\ c.arg = last.input

\* The function invoked is the fallback of the operation, called with no
\* argument: the table's Default for matchWithDefault, () => input for map.
Fallback(c) ==
  /\ c.arg = NoArg
  /\ ~HasEntry(last.H, LastTag)
  /\ \/ last.op = "matchWithDefault" /\ c.fn = Handler(last.H, "Default")
     \/ last.op = "map" /\ c.fn.src = "synthetic"

\* C18: an application op(v, d)(H) dispatches once: when it returns,
\* exactly one function has been invoked, once, and it is either the one
\* under v[d] or the fallback, not both; when it throws (Invalid Input at
\* op(v, d), Matcher incomplete! at the application) nothing has been
\* invoked.
C18_ExactlyOneDispatch ==
  /\ last.kind = "bind" => last.out.calls = <<>>
  /\ last.kind = "apply" =>
       IF last.out.st = "return"
         THEN /\ Len(last.out.calls) = 1
              /\ Selected(last.out.calls[1]) # Fallback(last.out.calls[1])
         ELSE /\ last.out.calls = <<>>
              /\ last.out.val = IncompleteMatcher

\* Every variant has a handler next to Default: only the handler runs.
C18_Witness ==
  /\ Applied("matchWithDefault")
  /\ HasEntry(last.H, "Default")
  /\ LastTag = "circle"
  /\ HasEntry(last.H, "circle")
  /\ Len(last.out.calls) = 1
  /\ last.out.calls[1].fn.key = "circle"

\* C19: matchWithDefault and map fail in the library with Invalid Input
\* only: for a tagged variant v, matchWithDefault(v, d)(H) with a Default
\* in H and map(v, d)(M) with any M, the empty table included, do not end
\* with Matcher incomplete!.
C19_NoIncompleteMatcherWithFallback ==
  /\ (last.kind = "bind" /\ last.op \in {"matchWithDefault", "map"}
        /\ last.out.st = "throw") => last.out.val = InvalidInput
  /\ ((Applied("matchWithDefault") /\ HasEntry(last.H, "Default"))
        \/ Applied("map")) =>
       /\ Ending(last.out) # "incomplete"
       /\ Ending(last.out) # "invalid"

C19_Witness ==
  /\ Applied("map")
  /\ last.H = EmptyTable
  /\ last.input = Ref(1)
  /\ last.out = Return(Ref(1), <<Invocation(Fn("synthetic", "", "input", Ref(1)),
                                              NoArg)>>)

\* C20: for a tagged variant v and a table M with an entry for v[d],
\* mapAll(v, d)(M) ends as map(v, d)(M) does: the same value returned
\* after the same invocation, of M[v[d]] with v.
C20_MapAllEqualsMapWhenCovered ==
  (Applied("mapAll") /\ HasEntry(last.H, LastTag)) =>
    /\ last.out = Then(heap, map(heap, last.input, last.d), last.H)
    /\ last.out.st = "return"
    /\ Len(last.out.calls) = 1
    /\ last.out.calls[1].arg = last.input

C20_Witness ==
  /\ Applied("mapAll")
  /\ last.input = Ref(1)
  /\ last.H["circle"] = "obj"
  /\ last.out.val = Ref(3)

\* C21: the library changes nothing it is given and keeps nothing: after
\* every call of isUnion, is, the four operations, a closure or a bound
\* function, returned or thrown, every object is as it was, the table a
\* bound function holds is the one it was bound with, and a call ends as
\* its own arguments alone determine, whatever was called before.
C21_NothingChangedNothingKept ==
  /\ heap = InitHeap
  /\ last.kind = "apply" =>
       /\ bound = Closure(last.op, last.input, last.d)
       /\ last.out = ApplyClosure(heap, bound, last.H)
  /\ last.kind = "pipeapply" =>
       /\ pipe = Piped(last.op, factory.d, last.H)
       /\ last.out = Then(heap, ValueFirst(last.op, last.input, factory.d),
                          last.H)
  /\ pred.fn = "isUnion" =>
       pred.out.val = Bool(isUnion(InitHeap, pred.x, pred.d))
  /\ pred.fn = "is" =>
       LET r == is(InitHeap, pred.x, pred.t, pred.d)
       IN  pred.out.st = r.st /\ pred.out.val = r.val

\* An application that returns right after one that threw.
C21_Witness ==
  /\ last.kind = "pipeapply"
  /\ prev = "incomplete"
  /\ last.input = Ref(1)
  /\ last.out.st = "return"
  /\ heap = InitHeap

\* C22: whenever matchWithDefault invokes the table's Default entry it
\* invokes it with no argument, for every tagged variant v, whatever
\* string v[d] is, and every table.
C22_DefaultGetsNoArgument ==
  Applied("matchWithDefault") =>
    \A i \in DOMAIN last.out.calls :
      (HasEntry(last.H, "Default")
         /\ last.out.calls[i].fn = Handler(last.H, "Default")) =>
        last.out.calls[i].arg = NoArg

\* C23: createPipeHandlers(d) never fails and returns an object with
\* exactly the methods match, matchWithDefault, map and mapAll; creating
\* the factory and binding a table validate nothing and invoke nothing,
\* whatever the table is; only the application of a bound function can
\* throw.
C23_FactoryAndBindingNeverFail ==
  /\ factory # NoFactory =>
       factory.methods = {"match", "matchWithDefault", "map", "mapAll"}
  /\ last.kind \in {"create", "pipebind"} =>
       /\ last.out.st = "return"
       /\ last.out.calls = <<>>
  /\ last.kind = "pipebind" => pipe = Piped(last.op, factory.d, last.H)
  /\ last.out.st = "throw" => last.kind = "pipeapply"

\* mapAll is bound to the empty table without a failure.
C23_Witness ==
  /\ last.kind = "pipebind"
  /\ last.op = "mapAll"
  /\ last.H = EmptyTable
  /\ last.out.st = "return"
  /\ pipe.op = "mapAll"

\* The caller put an entry under key k in a table of any keys.
Has(H, k) == k \in DOMAIN H /\ H[k] # "absent"

\* C24: only the key spelled Default is the fallback of matchWithDefault:
\* an entry under default is invoked only as the handler of a value whose
\* tag is default, with the value, and without an entry for v[d] and
\* without Default no entry of the table is invoked at all.
C24_OnlyExactDefaultIsFallback ==
  (Applied("matchWithDefault") /\ Has(last.H, "default")) =>
    /\ \A i \in DOMAIN last.out.calls :
         (last.out.calls[i].fn.src = "own"
            /\ last.out.calls[i].fn.key = "default") =>
           /\ LastTag = "default"
           /\ last.out.calls[i].arg = last.input
    /\ (~Has(last.H, LastTag) /\ ~Has(last.H, "Default")) =>
         \A i \in DOMAIN last.out.calls : last.out.calls[i].fn.src # "own"

\* A table with default and without Default does not cover a circle.
C24_Witness ==
  /\ Applied("matchWithDefault")
  /\ LastTag = "circle"
  /\ Has(last.H, "default")
  /\ ~Has(last.H, "circle")
  /\ ~Has(last.H, "Default")
  /\ last.out = Throw(IncompleteMatcher, <<>>)

\* What the first application of the closure of op(x, d) to H ends with.
Fresh(op, x, d, H) ==
  CASE op = "match" -> matchClosure(heap, x, d, H)
    [] op = "matchWithDefault" -> matchWithDefaultClosure(heap, x, d, H)
    [] op = "map" -> mapClosure(heap, x, d, H)
    [] op = "mapAll" -> mapAllClosure(heap, x, d, H)

\* C25: the closure op(v, d) returned is reusable: applied to tables H1,
\* H2, ... one after another, each application ends as a fresh
\* op(v, d)(Hi) does, whatever the applications before it were and however
\* they ended, Matcher incomplete! included.
C25_ClosureIsReusable ==
  last.kind = "apply" =>
    /\ bound = Closure(last.op, last.input, last.d)
    /\ ValueFirst(last.op, last.input, last.d) = ReturnClosure(bound)
    /\ last.out = Fresh(last.op, last.input, last.d, last.H)

\* An application returns after the one before it threw Matcher incomplete!.
C25_Witness ==
  /\ Applied("match")
  /\ prev = "incomplete"
  /\ last.input = Ref(1)
  /\ last.H["circle"] = "num"
  /\ last.out.val = Num(42)

C27_ValidatedOnceAtBinding ==
  last.kind = "apply" =>
    /\ Ending(last.out) # "invalid"
    /\ last.out.st = "throw" => last.out.val = IncompleteMatcher
    /\ (IsTagged(last.input, last.d) /\ HasEntry(last.H, LastTag)) =>
         /\ last.out.st = "return"
         /\ last.out.calls = <<Invocation(Handler(last.H, LastTag), last.input)>>
    /\ \A i \in DOMAIN last.out.calls :
         last.out.calls[i].fn.src = "own" =>
           \/ last.out.calls[i].fn.key = "Default"
           \/ /\ IsTagged(last.input, last.d)
              /\ last.out.calls[i].fn.key = LastTag

\* v[d] is a number by the time the closure is applied.
C27_Witness ==
  /\ Applied("match")
  /\ last.input = Ref(1)
  /\ heap[1].f["type"] = Num(5)
  /\ HasEntry(last.H, "circle")
  /\ last.out = Throw(IncompleteMatcher, <<>>)

\* C28: the lookup considers the caller's own entries only: for a tagged
\* variant v and a table without an entry for v[d], also when v[d] names a
\* property every object inherits (constructor, toString), match and
\* mapAll throw Matcher incomplete!, matchWithDefault returns Default(),
\* and map returns v.
C28_LookupOwnEntriesOnly ==
  (last.kind = "apply" /\ ~HasEntry(last.H, LastTag)) =>
    CASE last.op \in {"match", "mapAll"} ->
           last.out = Throw(IncompleteMatcher, <<>>)
      [] last.op = "matchWithDefault" ->
           HasEntry(last.H, "Default") =>
             LET dflt == Handler(last.H, "Default")
             IN  last.out = Return(Call(dflt, NoArg),
                                   <<Invocation(dflt, NoArg)>>)
      [] last.op = "map" ->
           /\ last.out.st = "return"
           /\ last.out.val = last.input
           /\ Len(last.out.calls) = 1
           /\ last.out.calls[1].fn.src = "synthetic"

\* The last call applied a closure or a bound function.
Dispatched == last.kind \in {"apply", "pipeapply"}

\* C29: what a handler or a Default of the caller throws reaches the
\* caller as it is, in the value-first and in the pipe form: the call ends
\* with that error, not with Invalid Input or Matcher incomplete! and not
\* with a result, and nothing is invoked after the function that threw.
C29_HandlerFailurePropagates ==
  Dispatched =>
    /\ (\E i \in DOMAIN last.out.calls : last.out.calls[i].fn.beh = "throw")
         => /\ last.out.st = "throw"
            /\ last.out.val = HandlerError
            /\ Len(last.out.calls) = 1
    /\ (IsTagged(last.input, last.d) /\ HasEntry(last.H, LastTag)
          /\ last.H[LastTag] = "throw") =>
         last.out = Throw(HandlerError,
                          <<Invocation(Handler(last.H, LastTag), last.input)>>)
    /\ (IsTagged(last.input, last.d) /\ ~HasEntry(last.H, LastTag)
          /\ LastTag \notin InheritedKeys
          /\ last.op = "matchWithDefault" /\ last.H["Default"] = "throw") =>
         last.out = Throw(HandlerError,
                          <<Invocation(Handler(last.H, "Default"), NoArg)>>)

\* A bound function throws what its circle handler threw.
C29_Witness ==
  /\ last.kind = "pipeapply"
  /\ last.op = "matchWithDefault"
  /\ last.input = Ref(1)
  /\ last.H["circle"] = "throw"
  /\ HasEntry(last.H, "Default")
  /\ last.out.val = HandlerError
  /\ Len(last.out.calls) = 1

\* C30: the dispatch/guard form and the Module form of match,
\* matchWithDefault, map and mapAll end alike for every value, key and
\* table: the same value returned or an error of the same message.
C30_TwoImplementationsAgree ==
  last.kind = "apply" =>
    LET m == ApplyModuleClosure(heap, bound, last.H)
    IN  /\ m.st = last.out.st
        /\ m.val = last.out.val

====
